---------------------------- MODULE Spec2Model ----------------------------
(***************************************************************************)
(* Model of the tokenami TypeScript language-service plugin                *)
(* (packages/ts-plugin/src/index.ts).  The plugin wraps a host language    *)
(* service and overrides four of its operations:                           *)
(*   getSemanticDiagnostics, getCodeFixesAtPosition,                       *)
(*   getCompletionsAtPosition, getCompletionEntryDetails.                  *)
(* Strings of the program are TLA+ strings; nullable values are sequences  *)
(* of length 0 (undefined / null) or 1.                                    *)
(***************************************************************************)
EXTENDS Integers, Sequences, FiniteSets, TLC

(***************************************************************************)
(* Bounds of the model.                                                    *)
(***************************************************************************)
\* longest completion list the host returns
MaxEntries == 2
\* longest diagnostic list the host returns
MaxDiags == 2

(***************************************************************************)
(* Program constants.                                                      *)
(***************************************************************************)
INVALID_SELECTOR_ERROR_CODE == 50000
INVALID_VALUE_ERROR_CODE == 2322
\* a host diagnostic / error code other than the two above
OTHER_ERROR_CODE == 2345

(***************************************************************************)
(* JavaScript string helpers.                                              *)
(***************************************************************************)
CharAt(s, i) == SubSeq(s, i, i)

\* index of the first sep at or after i, or 0
RECURSIVE IndexOfFrom(_, _, _)
IndexOfFrom(s, sep, i) ==
  IF i > Len(s) THEN 0
  ELSE IF CharAt(s, i) = sep THEN i
  ELSE IndexOfFrom(s, sep, i + 1)

\* String.prototype.split with a one-character separator
RECURSIVE Split(_, _)
Split(s, sep) ==
  LET i == IndexOfFrom(s, sep, 1) IN
  IF i = 0 THEN <<s>>
  ELSE <<SubSeq(s, 1, i - 1)>> \o Split(SubSeq(s, i + 1, Len(s)), sep)

\* the character class [\w\d_-] of the code-fix pattern
WordChars ==
  { "a", "b", "c", "d", "e", "f", "g", "h", "i", "j", "k", "l", "m",
    "n", "o", "p", "q", "r", "s", "t", "u", "v", "w", "x", "y", "z",
    "A", "B", "C", "D", "E", "F", "G", "H", "I", "J", "K", "L", "M",
    "N", "O", "P", "Q", "R", "S", "T", "U", "V", "W", "X", "Y", "Z",
    "0", "1", "2", "3", "4", "5", "6", "7", "8", "9", "_", "-" }

QuoteChars == { "'", "\"" }

AllWordChars(s) == \A i \in 1..Len(s) : CharAt(s, i) \in WordChars

\* decimal digits of a natural number, as String(n) prints it
Digit(d) == CharAt("0123456789", d + 1)

RECURSIVE NatToString(_)
NatToString(n) ==
  IF n < 10 THEN Digit(n) ELSE NatToString(n \div 10) \o Digit(n % 10)


(***************************************************************************)
(* Values of the theme: string | number.                                   *)
(***************************************************************************)
Str(s) == [type |-> "string", s |-> s, n |-> 0]
Num(n) == [type |-> "number", s |-> "", n |-> n]

\* JavaScript truthiness of a string | number
Truthy(v) == IF v.type = "string" THEN v.s # "" ELSE v.n # 0

\* String(v)
StringOf(v) == IF v.type = "string" THEN v.s ELSE NatToString(v.n)

(***************************************************************************)
(* The configuration loaded at construction (Tokenami.getConfigAtPath).    *)
(* theme: theme key -> token -> value; responsive: variant -> description; *)
(* selectors: the configured selectors.                                    *)
(***************************************************************************)
config ==
  [ theme |->
      [ color |-> [ blue |-> Str("#00f"), sm |-> Str("") ],
        space |-> [ blue |-> Num(4), none |-> Num(0), sm |-> Num(8) ] ],
    responsive |-> [ md |-> "(min-width: 700px)" ],
    selectors |-> { "hover" } ]

\* config.theme[themeKey]?.[token]
ThemeLookup(cfg, themeKey, token) ==
  IF themeKey \in DOMAIN cfg.theme /\ token \in DOMAIN cfg.theme[themeKey]
  THEN <<cfg.theme[themeKey][token]>>
  ELSE <<>>

\* config.responsive?.[variant]
ResponsiveLookup(cfg, variant) ==
  IF variant \in DOMAIN cfg.responsive THEN <<cfg.responsive[variant]>> ELSE <<>>

(***************************************************************************)
(* Grammar codec (@tokenami/config).  The structural predicates and the    *)
(* decoders are given over the names the model uses.                       *)
(***************************************************************************)
\* structure of every name the token-property predicate accepts
TokenPropertyGrammar ==
  [ ai |-> [ selector |-> <<>>, responsive |-> <<>>, cssProperty |-> "ai" ] ]
  @@ ("p$md" :> [ selector |-> <<>>, responsive |-> <<"md">>, cssProperty |-> "p" ])
  @@ ("ai$hover" :> [ selector |-> <<"hover">>, responsive |-> <<>>, cssProperty |-> "ai" ])
  @@ ("ai$sm" :> [ selector |-> <<"sm">>, responsive |-> <<>>, cssProperty |-> "ai" ])
  @@ ("ai$blue" :> [ selector |-> <<"blue">>, responsive |-> <<>>, cssProperty |-> "ai" ])

\* structure of every name the token-value predicate accepts; <<>> where the
\* decoder returns an absent result
TokenValueGrammar ==
  ("color_blue" :> <<[ themeKey |-> "color", token |-> "blue" ]>>)
  @@ ("space_blue" :> <<[ themeKey |-> "space", token |-> "blue" ]>>)
  @@ ("space_none" :> <<[ themeKey |-> "space", token |-> "none" ]>>)
  @@ ("color_red" :> <<[ themeKey |-> "color", token |-> "red" ]>>)
  @@ ("space_sm" :> <<[ themeKey |-> "space", token |-> "sm" ]>>)
  @@ ("color_sm" :> <<[ themeKey |-> "color", token |-> "sm" ]>>)
  @@ ("_" :> <<>>)

\* Tokenami.TokenProperty.safeParse(property).success; property is nullable
TokenPropertySafeParse(property) ==
  property # <<>> /\ property[1] \in DOMAIN TokenPropertyGrammar

\* Tokenami.getTokenPropertyParts(name, config): absent when the name
\* encodes a selector the config does not have
getTokenPropertyParts(name, cfg) ==
  LET parts == TokenPropertyGrammar[name] IN
  IF parts.selector # <<>> /\ parts.selector[1] \notin cfg.selectors
  THEN <<>>
  ELSE <<parts>>

\* Tokenami.TokenValue.safeParse(name).success
TokenValueSafeParse(name) == name \in DOMAIN TokenValueGrammar

\* Tokenami.getTokenValueParts(name)
getTokenValueParts(name) == TokenValueGrammar[name]

\* Tokenami.arbitraryValue(value)
arbitraryValue(value) == "var(---," \o value \o ")"

(***************************************************************************)
(* Source trees.  A source file is the text  ({ name:value , ... })  and   *)
(* its tree is a sequence of nodes in pre-order; a node's id is its index. *)
(* start is getStart(), end is getEnd(), parent is the parent's id (0 for  *)
(* the source file), text is a literal's or identifier's .text and raw its *)
(* getText().                                                              *)
(***************************************************************************)
StringLiteral(quote, text) ==
  [ kind |-> "StringLiteral", text |-> text, raw |-> quote \o text \o quote,
    props |-> <<>> ]
NumericLiteral(digits) ==
  [ kind |-> "NumericLiteral", text |-> digits, raw |-> digits, props |-> <<>> ]
Identifier(name) ==
  [ kind |-> "Identifier", text |-> name, raw |-> name, props |-> <<>> ]
ObjectLiteral(props) ==
  [ kind |-> "ObjectLiteralExpression", text |-> "", raw |-> "", props |-> props ]
Prop(name, value) == [ name |-> name, value |-> value ]

RECURSIVE PropsLen(_), PropsSize(_)
\* width of a value's source text
ValueLen(v) ==
  IF v.kind = "ObjectLiteralExpression" THEN 2 + PropsLen(v.props) ELSE Len(v.raw)
\* width of  name:value
PropLen(p) == Len(p.name.raw) + 1 + ValueLen(p.value)
\* width of  p1,p2,...
PropsLen(props) ==
  IF props = <<>> THEN 0
  ELSE PropLen(Head(props))
       + (IF Len(props) > 1 THEN 1 + PropsLen(Tail(props)) ELSE 0)
\* number of nodes of  p1,p2,...
PropsSize(props) ==
  IF props = <<>> THEN 0
  ELSE 3 + PropsSize(Head(props).value.props) + PropsSize(Tail(props))

Node(kind, start, end, parent, text, raw) ==
  [ kind |-> kind, start |-> start, end |-> end, parent |-> parent,
    text |-> text, raw |-> raw ]

\* the nodes of  p1,p2,...  laid out from offset pos, under node parent, the
\* first of them getting the id  id
RECURSIVE EmitProps(_, _, _, _)
EmitProps(props, pos, parent, id) ==
  IF props = <<>> THEN <<>>
  ELSE
    LET p == Head(props)
        valueStart == pos + Len(p.name.raw) + 1
        valueEnd == valueStart + ValueLen(p.value)
    IN  << Node("PropertyAssignment", pos, valueEnd, parent, "", ""),
           Node(p.name.kind, pos, pos + Len(p.name.raw), id, p.name.text, p.name.raw),
           Node(p.value.kind, valueStart, valueEnd, id, p.value.text, p.value.raw) >>
        \o EmitProps(p.value.props, valueStart + 1, id + 2, id + 3)
        \o EmitProps(Tail(props), valueEnd + 1, parent,
                     id + 3 + PropsSize(p.value.props))

\* the tree of the source file  ({ props })
BuildSourceFile(props) ==
  LET end == 4 + PropsLen(props) IN
  << Node("SourceFile", 0, end, 0, "", ""),
     Node("ExpressionStatement", 0, end, 1, "", ""),
     Node("ParenthesizedExpression", 0, end, 2, "", ""),
     Node("ObjectLiteralExpression", 1, end - 1, 3, "", "") >>
  \o EmitProps(props, 2, 4, 5)

\* the files of the program, by file name
FileSources ==
  [ a |-> << Prop(StringLiteral("\"", "ai$sm"), StringLiteral("\"", "red")) >>,
    b |-> << Prop(StringLiteral("'", "ai"), StringLiteral("'", "")),
             Prop(StringLiteral("\"", "foo"), StringLiteral("\"", "red")),
             Prop(Identifier("p"), NumericLiteral("4")) >>,
    c |-> << Prop(StringLiteral("\"", "ai$sm"),
                  ObjectLiteral(<< Prop(StringLiteral("\"", "ai$blue"),
                                        StringLiteral("\"", "1 px")) >>)),
             Prop(StringLiteral("\"", "ai$hover"), StringLiteral("'", "a-b")) >> ]

\* program.getSourceFile(fileName): the tree, or <<>> for a file the program
\* does not have
Program == [ f \in DOMAIN FileSources |-> BuildSourceFile(FileSources[f]) ]
FileNames == DOMAIN FileSources \cup { "missing" }
getSourceFile(fileName) ==
  IF fileName \in DOMAIN Program THEN <<Program[fileName]>> ELSE <<>>

\* ts.forEachChild order: the children of node n, in source order
RECURSIVE ChildrenFrom(_, _, _)
ChildrenFrom(ast, n, i) ==
  IF i > Len(ast) THEN <<>>
  ELSE (IF ast[i].parent = n THEN <<i>> ELSE <<>>) \o ChildrenFrom(ast, n, i + 1)
Children(ast, n) == ChildrenFrom(ast, n, n + 1)

isPropertyAssignment(ast, n) == ast[n].kind = "PropertyAssignment"
isStringLiteral(ast, n) == ast[n].kind = "StringLiteral"
\* node.name and node.initializer of a property assignment
NameOf(ast, n) == Children(ast, n)[1]
InitializerOf(ast, n) == Children(ast, n)[2]
getStart(ast, n) == ast[n].start
getEnd(ast, n) == ast[n].end
getWidth(ast, n) == ast[n].end - ast[n].start
getText(ast, n) == ast[n].raw

(***************************************************************************)
(* proxy.getSemanticDiagnostics                                            *)
(***************************************************************************)
\* faulty variant: the pushed diagnostic spans the property-name node only
SelectorNotFoundDiagnosticAtName(fileName, ast, node, property) ==
  [ file |-> fileName,
    start |-> getStart(ast, NameOf(ast, node)),
    length |-> getWidth(ast, NameOf(ast, node)),
    messageText |-> "Invalid property '" \o property
                    \o "'. Selector not found in theme.",
    category |-> "Error",
    code |-> INVALID_SELECTOR_ERROR_CODE ]

\* the diagnostic pushed for a token property whose selector is not found
SelectorNotFoundDiagnostic(fileName, ast, node, property) ==
  [ file |-> fileName,
    start |-> getStart(ast, node),
    length |-> getWidth(ast, node),
    messageText |-> "Invalid property '" \o property
                    \o "'. Selector not found in theme.",
    category |-> "Error",
    code |-> INVALID_SELECTOR_ERROR_CODE ]

\* faulty variant: findLastIndex, the last diagnostic with the invalid-value
\* code that starts where the node starts; 0 for none
FindLastInvalidValueIndex(original, start) ==
  LET hits == { i \in 1..Len(original) :
                  original[i].code = INVALID_VALUE_ERROR_CODE
                  /\ original[i].start = start }
  IN IF hits = {} THEN 0 ELSE CHOOSE i \in hits : \A j \in hits : j <= i

\* original.findIndex(...): the first diagnostic with the invalid-value code
\* that starts where the node starts; 0 for none
RECURSIVE FindInvalidValueIndexFrom(_, _, _)
FindInvalidValueIndexFrom(original, start, i) ==
  IF i > Len(original) THEN 0
  ELSE IF original[i].code = INVALID_VALUE_ERROR_CODE /\ original[i].start = start
       THEN i
       ELSE FindInvalidValueIndexFrom(original, start, i + 1)
FindInvalidValueIndex(original, start) ==
  FindInvalidValueIndexFrom(original, start, 1)

\* the message that replaces the host's invalid-value message; textValue is
\* the initializer's text, or null when it is not a string literal
InvalidValueMessage(property, textValue) ==
  IF textValue # <<>> /\ textValue[1] # ""
  THEN "Value '" \o textValue[1] \o "' is not assignable to '" \o property
       \o "'. Use theme value or mark arbitrary with '"
       \o arbitraryValue(textValue[1]) \o "'"
  ELSE "Grid values are not assignable to '" \o property \o "'."

\* the body of visit for one property assignment
VisitPropertyAssignment(fileName, ast, node, original) ==
  LET name == NameOf(ast, node)
      initializer == InitializerOf(ast, node)
      property == IF isStringLiteral(ast, name) THEN <<ast[name].text>> ELSE <<>>
      textValue == IF isStringLiteral(ast, initializer)
                   THEN <<ast[initializer].text>> ELSE <<>>
  IN
  IF ~TokenPropertySafeParse(property) THEN original
  ELSE
    LET parts == getTokenPropertyParts(property[1], config)
        pushed == IF parts = <<>>
                  THEN Append(original,
                              SelectorNotFoundDiagnostic(fileName, ast, node, property[1]))
                  ELSE original
        invalidValueIndex == FindInvalidValueIndex(pushed, getStart(ast, node))
    IN
    IF invalidValueIndex > 0
    THEN [ pushed EXCEPT ![invalidValueIndex].messageText =
             InvalidValueMessage(property[1], textValue) ]
    ELSE pushed

\* visit(node), then ts.forEachChild(node, visit)
RECURSIVE visit(_, _, _, _), forEachChildVisit(_, _, _, _)
\* faulty variant: the children are visited before the node itself
visitPostOrder(fileName, ast, node, original) ==
  LET after == forEachChildVisit(fileName, ast, Children(ast, node), original) IN
  IF isPropertyAssignment(ast, node)
  THEN VisitPropertyAssignment(fileName, ast, node, after)
  ELSE after

visit(fileName, ast, node, original) ==
  forEachChildVisit(fileName, ast, Children(ast, node),
    IF isPropertyAssignment(ast, node)
    THEN VisitPropertyAssignment(fileName, ast, node, original)
    ELSE original)
forEachChildVisit(fileName, ast, children, original) ==
  IF children = <<>> THEN original
  ELSE forEachChildVisit(fileName, ast, Tail(children),
                         visit(fileName, ast, Head(children), original))

\* the override: hostDiagnostics is the host's getSemanticDiagnostics(fileName)
proxyGetSemanticDiagnostics(fileName, hostDiagnostics) ==
  LET sourceFile == getSourceFile(fileName) IN
  IF sourceFile # <<>>
  THEN forEachChildVisit(fileName, sourceFile[1], Children(sourceFile[1], 1),
                         hostDiagnostics)
  ELSE hostDiagnostics

(***************************************************************************)
(* proxy.getCodeFixesAtPosition                                            *)
(***************************************************************************)
\* find(node) of findNodeAtPosition: the deepest node covering position, as
\* a nullable node id
RECURSIVE find(_, _, _), findFirstChild(_, _, _)
find(ast, node, position) ==
  IF position >= getStart(ast, node) /\ position < getEnd(ast, node)
  THEN LET inChild == findFirstChild(ast, Children(ast, node), position) IN
       IF inChild # <<>> THEN inChild ELSE <<node>>
  ELSE <<>>
\* ts.forEachChild(node, find): the first truthy result
findFirstChild(ast, children, position) ==
  IF children = <<>> THEN <<>>
  ELSE LET found == find(ast, Head(children), position) IN
       IF found # <<>> THEN found
       ELSE findFirstChild(ast, Tail(children), position)

findNodeAtPosition(ast, position) == find(ast, 1, position)

createTextSpanFromNode(ast, node) ==
  [ start |-> getStart(ast, node), length |-> getEnd(ast, node) - getStart(ast, node) ]

\* whether  /^('|")?[\w\d_-]+('|")?$/  matches text
MatchesWordPattern(text) ==
  LET n == Len(text)
      lead == IF n > 0 /\ CharAt(text, 1) \in QuoteChars THEN 1 ELSE 0
      trail == IF n > lead /\ CharAt(text, n) \in QuoteChars THEN 1 ELSE 0
      inner == SubSeq(text, lead + 1, n - trail)
  IN inner # "" /\ AllWordChars(inner)

\* faulty variant: the replacement without the groups $1 and $2
ReplaceWordPatternWithoutGroups(originalText, replacement) ==
  IF MatchesWordPattern(originalText) THEN replacement ELSE originalText

\* originalText.replace(/^('|")?[\w\d_-]+('|")?$/, `$1${replacement}$2`)
ReplaceWordPattern(originalText, replacement) ==
  LET n == Len(originalText)
      group1 == IF n > 0 /\ CharAt(originalText, 1) \in QuoteChars
                THEN CharAt(originalText, 1) ELSE ""
      group2 == IF n > Len(group1) /\ CharAt(originalText, n) \in QuoteChars
                THEN CharAt(originalText, n) ELSE ""
  IN IF MatchesWordPattern(originalText)
     THEN group1 \o replacement \o group2
     ELSE originalText

\* faulty variant: the text of any initializer, string literal or not
FixValueOfAnyInitializer(ast, initializer) == <<ast[initializer].text>>

\* ts.isStringLiteral(initializer) && initializer.text: false (<<>>) or the text
FixValue(ast, initializer) ==
  IF isStringLiteral(ast, initializer) THEN <<ast[initializer].text>> ELSE <<>>

ReplaceWithArbitraryFix(fileName, valueSpan, arbitraryText) ==
  [ description |-> "Use " \o arbitraryText \o " to mark as arbitrary",
    fixName |-> "replaceWithArbitrary",
    changes |-> << [ fileName |-> fileName,
                     textChanges |-> << [ span |-> valueSpan,
                                          newText |-> arbitraryText ] >> ] >> ]

\* the override: hostFixes is the host's getCodeFixesAtPosition(...)
proxyGetCodeFixesAtPosition(fileName, start, errorCodes, hostFixes) ==
  LET sourceFile == getSourceFile(fileName) IN
  IF \E i \in 1..Len(errorCodes) : errorCodes[i] = INVALID_VALUE_ERROR_CODE
  THEN
    IF sourceFile # <<>>
    THEN
      LET ast == sourceFile[1]
          node == findNodeAtPosition(ast, start)
      IN
      IF node # <<>> /\ ast[node[1]].parent # 0
         /\ isPropertyAssignment(ast, ast[node[1]].parent)
      THEN
        LET assignment == ast[node[1]].parent
            initializer == InitializerOf(ast, assignment)
            valueSpan == createTextSpanFromNode(ast, initializer)
            value == FixValue(ast, initializer)
        IN
        IF value # <<>> /\ value[1] # ""
        THEN << ReplaceWithArbitraryFix(fileName, valueSpan,
                  ReplaceWordPattern(getText(ast, initializer),
                                     arbitraryValue(value[1]))) >>
        ELSE hostFixes
      ELSE hostFixes
    ELSE hostFixes
  ELSE hostFixes

(***************************************************************************)
(* proxy.getCompletionsAtPosition                                          *)
(***************************************************************************)
\* faulty variant: a set that starts a new Map holding the one entry
MapSetFresh(map, key, value) == (key :> value)

\* the empty Map, Map.prototype.set and Map.prototype.get
EmptyMap == <<>>
MapSet(map, key, value) == (key :> value) @@ map
MapGet(map, key) == IF key \in DOMAIN map THEN <<map[key]>> ELSE <<>>

\* faulty variant: the sort key is prefixed only when the name decodes
AugmentTokenPropertyWhenDecoded(entry, entryName) ==
  IF TokenPropertySafeParse(<<entryName>>)
  THEN
    LET parts == getTokenPropertyParts(entryName, config)
        description == IF parts # <<>> /\ parts[1].responsive # <<>>
                       THEN ResponsiveLookup(config, parts[1].responsive[1])
                       ELSE <<>>
        sorted == IF parts # <<>>
                  THEN [ entry EXCEPT !.sortText = "$" \o entryName ]
                  ELSE entry
    IN
    IF description # <<>> /\ description[1] # ""
    THEN [ sorted EXCEPT !.labelDetails =
             << [ detail |-> "", description |-> description[1] ] >> ]
    ELSE sorted
  ELSE entry

\* the token-property step of the map callback
AugmentTokenProperty(entry, entryName) ==
  IF TokenPropertySafeParse(<<entryName>>)
  THEN
    LET parts == getTokenPropertyParts(entryName, config)
        \* parts?.responsive && config.responsive?.[parts.responsive]
        description == IF parts # <<>> /\ parts[1].responsive # <<>>
                       THEN ResponsiveLookup(config, parts[1].responsive[1])
                       ELSE <<>>
        sorted == [ entry EXCEPT !.sortText = "$" \o entryName ]
    IN
    IF description # <<>> /\ description[1] # ""
    THEN [ sorted EXCEPT !.labelDetails =
             << [ detail |-> "", description |-> description[1] ] >> ]
    ELSE sorted
  ELSE entry

\* whether the token-value step records and rewrites the entry
RecordsTokenValue(parts, tokenValue) ==
  parts # <<>> /\ tokenValue # <<>> /\ Truthy(tokenValue[1])

\* the token-value step of the map callback: the entry and the cache after it
AugmentTokenValue(entry, entryName, map) ==
  IF TokenValueSafeParse(entryName)
  THEN
    LET parts == getTokenValueParts(entryName)
        tokenValue == IF parts # <<>>
                      THEN ThemeLookup(config, parts[1].themeKey, parts[1].token)
                      ELSE <<>>
    IN
    IF RecordsTokenValue(parts, tokenValue)
    THEN [ entry |-> [ entry EXCEPT
                         !.name = "$" \o parts[1].token,
                         !.kindModifiers = parts[1].themeKey,
                         !.insertText = <<entryName>>,
                         !.labelDetails =
                           << [ detail |-> "", description |-> entryName ] >> ],
           map |-> MapSet(map, parts[1].token,
                          [ themeKey |-> parts[1].themeKey,
                            tokenValue |-> tokenValue[1] ]) ]
    ELSE [ entry |-> entry, map |-> map ]
  ELSE [ entry |-> entry, map |-> map ]

\* the map callback for one entry
AugmentEntry(entry, map) ==
  LET entryName == entry.name
      defaulted == [ entry EXCEPT !.sortText = entryName ]
  IN AugmentTokenValue(AugmentTokenProperty(defaulted, entryName), entryName, map)

\* original.entries.map(...): the entries and the cache after the whole list
RECURSIVE AugmentEntries(_, _)
AugmentEntries(entries, map) ==
  IF entries = <<>> THEN [ entries |-> <<>>, map |-> map ]
  ELSE LET first == AugmentEntry(Head(entries), map)
           rest == AugmentEntries(Tail(entries), first.map)
       IN [ entries |-> <<first.entry>> \o rest.entries, map |-> rest.map ]

\* faulty variant: an absent host result empties the cache
proxyGetCompletionsAtPositionClearing(hostCompletions, map) ==
  IF hostCompletions = <<>>
  THEN [ result |-> hostCompletions, map |-> EmptyMap ]
  ELSE LET done == AugmentEntries(hostCompletions[1].entries, map) IN
       [ result |-> << [ hostCompletions[1] EXCEPT !.entries = done.entries ] >>,
         map |-> done.map ]

\* the override: hostCompletions is the host's nullable completion list; the
\* result and the cache after the call
proxyGetCompletionsAtPosition(hostCompletions, map) ==
  IF hostCompletions = <<>>
  THEN [ result |-> hostCompletions, map |-> map ]
  ELSE LET done == AugmentEntries(hostCompletions[1].entries, map) IN
       [ result |-> << [ hostCompletions[1] EXCEPT !.entries = done.entries ] >>,
         map |-> done.map ]

(***************************************************************************)
(* proxy.getCompletionEntryDetails                                         *)
(***************************************************************************)
\* const [, token] = entryName.split('$'): nullable
ShortToken(entryName) ==
  LET pieces == Split(entryName, "$") IN
  IF Len(pieces) >= 2 THEN <<pieces[2]>> ELSE <<>>

\* token ? tokenConfigMap.get(token) : undefined
EntryConfig(entryName, map) ==
  LET token == ShortToken(entryName) IN
  IF token # <<>> /\ token[1] # "" THEN MapGet(map, token[1]) ELSE <<>>

SynthesizedDetails(entryName, entryConfig) ==
  [ name |-> entryName,
    kind |-> "string",
    kindModifiers |-> entryConfig.themeKey,
    displayParts |-> << [ text |-> StringOf(entryConfig.tokenValue),
                          kind |-> "markdown" ] >> ]

\* faulty variant: no early return of the host's record on a cache miss; the record
\* is built from the missing entry
proxyGetCompletionEntryDetailsUnguarded(entryName, hostDetails, map) ==
  LET entryConfig == EntryConfig(entryName, map) IN
  IF entryConfig = <<>>
  THEN << [ name |-> entryName, kind |-> "string", kindModifiers |-> "undefined",
            displayParts |-> << [ text |-> "undefined", kind |-> "markdown" ] >> ] >>
  ELSE << SynthesizedDetails(entryName, entryConfig[1]) >>

\* the override: hostDetails is the host's nullable detail record
proxyGetCompletionEntryDetails(entryName, hostDetails, map) ==
  LET entryConfig == EntryConfig(entryName, map) IN
  IF entryConfig = <<>> THEN hostDetails
  ELSE << SynthesizedDetails(entryName, entryConfig[1]) >>

(***************************************************************************)
(* The operations create() does not override.                              *)
(***************************************************************************)
ForwardedOperations == { "getQuickInfoAtPosition", "getSyntacticDiagnostics" }
ForwardedArguments == { << "a" >>, << "b", "3" >> }
HostAnswers == { "r1", "r2" }

\* x.apply(info.languageService, received): what the host's implementation of
\* operation k answers to the arguments it receives
HostOperation(k, received, answer) ==
  [ operation |-> k, received |-> received, answer |-> answer ]

\* faulty variant: the host's implementation is called without the arguments
ForwardWithoutArguments(k, arguments, answer) == HostOperation(k, <<>>, answer)

\* proxy[k] = (...args) => x.apply(info.languageService, args)
Forward(k, arguments, answer) == HostOperation(k, arguments, answer)

(***************************************************************************)
(* The host language service: what it may answer.                          *)
(***************************************************************************)
BoundedSeq(S, n) == UNION { [1..k -> S] : k \in 0..n }

\* starts of the property assignments of a file
AssignmentStarts(fileName) ==
  IF fileName \in DOMAIN Program
  THEN { Program[fileName][n].start :
           n \in { m \in 1..Len(Program[fileName]) :
                     isPropertyAssignment(Program[fileName], m) } }
  ELSE {}

HostDiagnostic(fileName, start, code) ==
  [ file |-> fileName, start |-> start, length |-> 1, messageText |-> "host",
    category |-> "Error", code |-> code ]
\* the host reports at the assignments, and an invalid value elsewhere
HostDiagnostics(fileName) ==
  { HostDiagnostic(fileName, start, code) :
      start \in AssignmentStarts(fileName),
      code \in { INVALID_VALUE_ERROR_CODE, OTHER_ERROR_CODE } }
  \cup { HostDiagnostic(fileName, 0, INVALID_VALUE_ERROR_CODE) }
HostDiagnosticLists(fileName) == BoundedSeq(HostDiagnostics(fileName), MaxDiags)

HostFix(fileName) ==
  [ description |-> "host", fixName |-> "hostFix",
    changes |-> << [ fileName |-> fileName, textChanges |-> <<>> ] >> ]
HostFixLists(fileName) == { << HostFix(fileName) >> }
ErrorCodeLists ==
  { << OTHER_ERROR_CODE >>, << OTHER_ERROR_CODE, INVALID_VALUE_ERROR_CODE >> }
\* every offset of the file, its end included
Positions(fileName) ==
  IF fileName \in DOMAIN Program THEN 0..Program[fileName][1].end ELSE {0}

EntryNames == { "foo", "ai", "p$md", "ai$sm" } \cup DOMAIN TokenValueGrammar
HostEntry(name) ==
  [ name |-> name, sortText |-> "11", kindModifiers |-> "", insertText |-> <<>>,
    labelDetails |-> <<>> ]
HostCompletions ==
  { <<>> } \cup
  { << [ isGlobalCompletion |-> FALSE, entries |-> entries ] >> :
      entries \in BoundedSeq({ HostEntry(name) : name \in EntryNames }, MaxEntries) }

DetailNames ==
  { "$blue", "$sm", "$none", "$red", "color_blue", "foo", "ai$blue", "$blue$x", "$" }
HostDetails(entryName) ==
  { <<>>,
    << [ name |-> entryName, kind |-> "property", kindModifiers |-> "",
         displayParts |-> << [ text |-> "host", kind |-> "text" ] >> ] >> }

(***************************************************************************)
(* The session.                                                            *)
(*   configExists    ts.sys.fileExists(configPath) at construction         *)
(*   installed       whether create() installed the four overrides         *)
(*   tokenConfigMap  the session cache: token -> {themeKey, tokenValue}    *)
(*   op, args        the last operation called on the proxy, its arguments *)
(*   hostRet         what the host's operation answers for these arguments *)
(*   ret             what the proxy returned                               *)
(* History variables, read by the properties only:                         *)
(*   lastProcessed   token -> theme key and nullable theme value of the    *)
(*                   last processed completion entry that decoded to it    *)
(*   recorded        the tokens the cache has held at some time            *)
(*   lastPresent     token -> theme key of the last processed completion   *)
(*                   entry that decoded to it with a present theme value   *)
(***************************************************************************)
VARIABLES configExists, installed, tokenConfigMap, op, args, hostRet, ret,
          lastProcessed, recorded, lastPresent

vars == << configExists, installed, tokenConfigMap, op, args, hostRet, ret,
           lastProcessed, recorded, lastPresent >>

\* faulty variant: no early return when the config is missing
createWithoutEarlyReturn(exists) == TRUE

\* create(info): the overrides are installed only when the config exists
create(exists) == exists

Init ==
  \E exists \in BOOLEAN :
    /\ configExists = exists
    /\ installed = create(exists)
    /\ tokenConfigMap = EmptyMap
    /\ op = "create"
    /\ args = <<>>
    /\ hostRet = <<>>
    /\ ret = <<>>
    /\ lastProcessed = EmptyMap
    /\ recorded = {}
    /\ lastPresent = EmptyMap

\* every getSemanticDiagnostics call: the file asked for, the host's answer
\* and the override's answer to it
SemanticDiagnosticsCalls ==
  UNION { { [ fileName |-> fileName, host |-> hostDiagnostics,
              proxy |-> proxyGetSemanticDiagnostics(fileName, hostDiagnostics) ] :
              hostDiagnostics \in HostDiagnosticLists(fileName) } :
          fileName \in FileNames }

GetSemanticDiagnostics ==
  \E call \in SemanticDiagnosticsCalls :
    /\ op' = "getSemanticDiagnostics"
    /\ args' = [ fileName |-> call.fileName ]
    /\ hostRet' = call.host
    /\ ret' = IF installed THEN call.proxy ELSE call.host
    /\ UNCHANGED << configExists, installed, tokenConfigMap, lastProcessed, recorded,
                    lastPresent >>

\* every getCodeFixesAtPosition call: its arguments, the host's answer and
\* the override's answer to it
CodeFixesCalls ==
  UNION { { [ fileName |-> fileName, start |-> start, errorCodes |-> errorCodes,
              host |-> hostFixes,
              proxy |-> proxyGetCodeFixesAtPosition(fileName, start, errorCodes,
                                                    hostFixes) ] :
              start \in Positions(fileName), errorCodes \in ErrorCodeLists,
              hostFixes \in HostFixLists(fileName) } :
          fileName \in FileNames }

GetCodeFixesAtPosition ==
  \E call \in CodeFixesCalls :
    /\ op' = "getCodeFixesAtPosition"
    /\ args' = [ fileName |-> call.fileName, start |-> call.start,
                 errorCodes |-> call.errorCodes ]
    /\ hostRet' = call.host
    /\ ret' = IF installed THEN call.proxy ELSE call.host
    /\ UNCHANGED << configExists, installed, tokenConfigMap, lastProcessed, recorded,
                    lastPresent >>

\* history: the last processed entry decoding to each token
RECURSIVE ProcessedAfter(_, _)
ProcessedAfter(entries, last) ==
  IF entries = <<>> THEN last
  ELSE
    LET name == Head(entries).name
        parts == IF TokenValueSafeParse(name) THEN getTokenValueParts(name) ELSE <<>>
    IN ProcessedAfter(Tail(entries),
         IF parts = <<>> THEN last
         ELSE MapSet(last, parts[1].token,
                     [ themeKey |-> parts[1].themeKey,
                       tokenValue |->
                         ThemeLookup(config, parts[1].themeKey, parts[1].token) ]))

\* history: the theme key of the last processed entry decoding to each token
\* with a present theme value
RECURSIVE PresentAfter(_, _)
PresentAfter(entries, last) ==
  IF entries = <<>> THEN last
  ELSE
    LET name == Head(entries).name
        parts == IF TokenValueSafeParse(name) THEN getTokenValueParts(name) ELSE <<>>
    IN PresentAfter(Tail(entries),
         IF parts # <<>>
            /\ ThemeLookup(config, parts[1].themeKey, parts[1].token) # <<>>
         THEN MapSet(last, parts[1].token, parts[1].themeKey)
         ELSE last)

GetCompletionsAtPosition ==
  \E hostCompletions \in HostCompletions :
    \E done \in { IF installed
                  THEN proxyGetCompletionsAtPosition(hostCompletions, tokenConfigMap)
                  ELSE [ result |-> hostCompletions, map |-> tokenConfigMap ] } :
      /\ op' = "getCompletionsAtPosition"
      /\ args' = <<>>
      /\ hostRet' = hostCompletions
      /\ ret' = done.result
      /\ tokenConfigMap' = done.map
      /\ lastProcessed' = IF installed /\ hostCompletions # <<>>
                          THEN ProcessedAfter(hostCompletions[1].entries, lastProcessed)
                          ELSE lastProcessed
      /\ recorded' = recorded \cup DOMAIN done.map
      /\ lastPresent' = IF installed /\ hostCompletions # <<>>
                        THEN PresentAfter(hostCompletions[1].entries, lastPresent)
                        ELSE lastPresent
      /\ UNCHANGED << configExists, installed >>

GetCompletionEntryDetails ==
  \E entryName \in DetailNames :
    \E hostDetails \in HostDetails(entryName) :
      /\ op' = "getCompletionEntryDetails"
      /\ args' = [ entryName |-> entryName ]
      /\ hostRet' = hostDetails
      /\ ret' = IF installed
                THEN proxyGetCompletionEntryDetails(entryName, hostDetails, tokenConfigMap)
                ELSE hostDetails
      /\ UNCHANGED << configExists, installed, tokenConfigMap, lastProcessed, recorded,
                    lastPresent >>

\* an operation create() left to the forwarding proxy
ForwardedOperation ==
  \E k \in ForwardedOperations :
    \E arguments \in ForwardedArguments :
      \E answer \in HostAnswers :
        /\ op' = k
        /\ args' = [ arguments |-> arguments ]
        /\ hostRet' = << HostOperation(k, arguments, answer) >>
        /\ ret' = << Forward(k, arguments, answer) >>
        /\ UNCHANGED << configExists, installed, tokenConfigMap, lastProcessed,
                        recorded, lastPresent >>

Next ==
  \/ ForwardedOperation
  \/ GetSemanticDiagnostics
  \/ GetCodeFixesAtPosition
  \/ GetCompletionsAtPosition
  \/ GetCompletionEntryDetails

Spec == Init /\ [][Next]_vars

(***************************************************************************)
(* Properties.                                                             *)
(***************************************************************************)
Installed(operation) == op = operation /\ installed

\* the entries the host returned and the entries the proxy returned, for a
\* completion call the host answered with a list
HostEntries == hostRet[1].entries
RetEntries == ret[1].entries

\* the property assignments of a tree
Assignments(ast) == { n \in 1..Len(ast) : ast[n].kind = "PropertyAssignment" }
\* the first and second child of an assignment, found by position
NameNode(ast, n) ==
  CHOOSE m \in 1..Len(ast) : ast[m].parent = n /\ ast[m].start = ast[n].start
InitializerNode(ast, n) ==
  CHOOSE m \in 1..Len(ast) : ast[m].parent = n /\ ast[m].end = ast[n].end
\* assignments whose string-literal name satisfies the token-property predicate
TokenPropertyAssignments(ast) ==
  { n \in Assignments(ast) :
      /\ ast[NameNode(ast, n)].kind = "StringLiteral"
      /\ TokenPropertySafeParse(<<ast[NameNode(ast, n)].text>>) }
\* those of them whose decode against the config is absent
UndecodableAssignments(ast) ==
  { n \in TokenPropertyAssignments(ast) :
      getTokenPropertyParts(ast[NameNode(ast, n)].text, config) = <<>> }
\* the nodes covering an offset, and the smallest of them (nullable)
Covering(ast, position) ==
  { n \in 1..Len(ast) : ast[n].start <= position /\ position < ast[n].end }
SmallestCovering(ast, position) ==
  { n \in Covering(ast, position) :
      \A m \in Covering(ast, position) :
        \/ ast[m].end - ast[m].start > ast[n].end - ast[n].start
        \/ (ast[m].end - ast[m].start = ast[n].end - ast[n].start /\ m <= n) }

----------------------------------------------------------------------------
\* C1: a detail request for "$t", made after a processed completion entry
\* decoded to token t with theme key k and resolved theme value v and no
\* entry decoding to t was processed after it, returns the synthesized record:
\* name = entryName, kind = string, kindModifiers = k, one display part whose
\* text is v rendered as text.
C1_DetailsOfProcessedToken ==
  Installed("getCompletionEntryDetails") =>
    \A t \in DOMAIN lastProcessed :
      (args.entryName = "$" \o t /\ lastProcessed[t].tokenValue # <<>>) =>
        ret = << [ name |-> args.entryName,
                   kind |-> "string",
                   kindModifiers |-> lastProcessed[t].themeKey,
                   displayParts |->
                     << [ text |-> StringOf(lastProcessed[t].tokenValue[1]),
                          kind |-> "markdown" ] >> ] >>

----------------------------------------------------------------------------
\* the short token of the last detail request: the second piece of entryName
\* split on "$" (nullable)
RequestedToken ==
  LET pieces == Split(args.entryName, "$") IN
  IF Len(pieces) >= 2 THEN <<pieces[2]>> ELSE <<>>

\* C2: a detail request whose short token no earlier completion call recorded
\* returns exactly the host's own detail result.
C2_UnrecordedTokenGetsHostDetails ==
  op = "getCompletionEntryDetails" =>
    ((RequestedToken = <<>> \/ RequestedToken[1] \notin recorded) => ret = hostRet)

\* a token that a processed list decoded but did not record is asked for,
\* while another token is recorded, and the host's record comes back
C2_Witness ==
  /\ Installed("getCompletionEntryDetails")
  /\ RequestedToken # <<>>
  /\ RequestedToken[1] \in DOMAIN lastProcessed
  /\ RequestedToken[1] \notin recorded
  /\ recorded # {}
  /\ hostRet # <<>>
  /\ ret = hostRet

----------------------------------------------------------------------------
\* C3: with no config file at construction, every intercepted operation
\* returns what the host's operation returns for the same arguments and the
\* session cache is never populated.
C3_NoConfigIsPassThrough ==
  ~configExists => (ret = hostRet /\ tokenConfigMap = EmptyMap)

\* without a config, a completion list holding a token value with a theme
\* value came back from the host
C3_Witness ==
  /\ ~configExists
  /\ op = "getCompletionsAtPosition"
  /\ hostRet # <<>>
  /\ \E i \in 1..Len(HostEntries) : HostEntries[i].name = "color_blue"
  /\ ret = hostRet

----------------------------------------------------------------------------
\* the tree of the file of the last call (the file is one the program has)
FileAvailable == args.fileName \in DOMAIN Program
Ast == Program[args.fileName]

\* the synthesized selector-not-found diagnostics of ret with a given span
SelectorNotFoundAt(start, length) ==
  { i \in 1..Len(ret) :
      /\ ret[i].category = "Error"
      /\ ret[i].code = INVALID_SELECTOR_ERROR_CODE
      /\ ret[i].start = start
      /\ ret[i].length = length }

\* C4 as stated: for every property assignment whose string-literal name
\* satisfies the token-property predicate and whose decode is absent, the
\* output holds exactly one Error diagnostic with code 50000 whose start and
\* length are those of the property-name node; with no host diagnostics and
\* one such assignment the output is exactly that one diagnostic.
C4_SpansNameNode ==
  (Installed("getSemanticDiagnostics") /\ FileAvailable) =>
    /\ \A n \in UndecodableAssignments(Ast) :
         Cardinality(SelectorNotFoundAt(Ast[NameNode(Ast, n)].start,
                                        Ast[NameNode(Ast, n)].end
                                        - Ast[NameNode(Ast, n)].start)) = 1
    /\ (hostRet = <<>> /\ Cardinality(UndecodableAssignments(Ast)) = 1) =>
         Len(ret) = 1

\* C4 amended: the one diagnostic synthesized for such an assignment starts at
\* the property-assignment node (where its name starts) and has the width of
\* the whole assignment, name and value; with no host diagnostics and one
\* such assignment the output is exactly that one diagnostic.
C4_SpansAssignmentNode ==
  (Installed("getSemanticDiagnostics") /\ FileAvailable) =>
    /\ \A n \in UndecodableAssignments(Ast) :
         /\ Ast[n].start = Ast[NameNode(Ast, n)].start
         /\ Cardinality(SelectorNotFoundAt(Ast[n].start, Ast[n].end - Ast[n].start)) = 1
    /\ Cardinality({ i \in 1..Len(ret) : ret[i].code = INVALID_SELECTOR_ERROR_CODE })
         = Cardinality(UndecodableAssignments(Ast))
    /\ (hostRet = <<>> /\ Cardinality(UndecodableAssignments(Ast)) = 1) =>
         \E n \in UndecodableAssignments(Ast) :
           ret = << [ file |-> args.fileName,
                      start |-> Ast[n].start,
                      length |-> Ast[n].end - Ast[n].start,
                      messageText |-> "Invalid property '"
                                      \o Ast[NameNode(Ast, n)].text
                                      \o "'. Selector not found in theme.",
                      category |-> "Error",
                      code |-> INVALID_SELECTOR_ERROR_CODE ] >>

\* the file  ({"ai$sm":"red"})  with no host diagnostics: one diagnostic, as
\* wide as the assignment and wider than its name
C4_Witness ==
  /\ Installed("getSemanticDiagnostics")
  /\ FileAvailable
  /\ hostRet = <<>>
  /\ Cardinality(UndecodableAssignments(Ast)) = 1
  /\ Len(ret) = 1
  /\ ret[1].code = INVALID_SELECTOR_ERROR_CODE
  /\ \E n \in UndecodableAssignments(Ast) :
       ret[1].length > Ast[NameNode(Ast, n)].end - Ast[NameNode(Ast, n)].start

----------------------------------------------------------------------------
\* index of the first host diagnostic with the invalid-value code at an
\* offset; 0 for none
FirstInvalidValueAt(start) ==
  LET hits == { i \in 1..Len(hostRet) :
                  hostRet[i].code = INVALID_VALUE_ERROR_CODE
                  /\ hostRet[i].start = start }
  IN IF hits = {} THEN 0 ELSE CHOOSE i \in hits : \A j \in hits : i <= j

\* C5: when a host diagnostic with code 2322 starts where a token-property
\* assignment starts, its replaced message depends only on the shape of the
\* value: for every string-literal value, the empty string included, it names
\* the literal and suggests its arbitrary-value form; for every other value it
\* is the generic "Grid values are not assignable" message.
C5_MessageByValueShape ==
  (Installed("getSemanticDiagnostics") /\ FileAvailable) =>
    \A n \in TokenPropertyAssignments(Ast) :
      LET i == FirstInvalidValueAt(Ast[n].start)
          property == Ast[NameNode(Ast, n)].text
          value == Ast[InitializerNode(Ast, n)]
      IN i > 0 =>
           ret[i].messageText =
             IF value.kind = "StringLiteral"
             THEN "Value '" \o value.text \o "' is not assignable to '" \o property
                  \o "'. Use theme value or mark arbitrary with '"
                  \o arbitraryValue(value.text) \o "'"
             ELSE "Grid values are not assignable to '" \o property \o "'."

----------------------------------------------------------------------------
Includes(codes, code) == \E i \in 1..Len(codes) : codes[i] = code

\* the assignment the code fix is about: the parent of the smallest node
\* covering start, when that parent is a property assignment (nullable)
FixAssignment ==
  IF ~FileAvailable THEN {}
  ELSE { Ast[n].parent : n \in { m \in SmallestCovering(Ast, args.start) :
                                   /\ Ast[m].parent # 0
                                   /\ Ast[Ast[m].parent].kind = "PropertyAssignment" } }

\* C6: with the invalid-value code among errorCodes and the node at start
\* under a property assignment whose string-literal value does not have the
\* word shape, no fix is synthesized: the host's list is returned unchanged
\* and no text change repeating the original literal is emitted.
C6_NoFixForOtherShapes ==
  (Installed("getCodeFixesAtPosition")
     /\ Includes(args.errorCodes, INVALID_VALUE_ERROR_CODE)) =>
    \A a \in FixAssignment :
      LET value == Ast[InitializerNode(Ast, a)] IN
      (value.kind = "StringLiteral" /\ ~MatchesWordPattern(value.raw)) =>
        /\ ret = hostRet
        /\ \A i \in 1..Len(ret) :
             \A j \in 1..Len(ret[i].changes) :
               \A k \in 1..Len(ret[i].changes[j].textChanges) :
                 ret[i].changes[j].textChanges[k].newText # value.raw

----------------------------------------------------------------------------
\* the applicability condition of the code fix, as C7 states it
FixApplicable ==
  /\ Includes(args.errorCodes, INVALID_VALUE_ERROR_CODE)
  /\ FileAvailable
  /\ \E a \in FixAssignment : Ast[InitializerNode(Ast, a)].kind = "StringLiteral"

\* C7: getCodeFixesAtPosition returns exactly the host's fix list whenever
\* errorCodes lacks 2322, or the source file is unavailable, or the smallest
\* node covering start has no property-assignment parent, or the assignment's
\* value is not a string literal.
C7_HostFixesWhenNotApplicable ==
  (Installed("getCodeFixesAtPosition") /\ ~FixApplicable) => ret = hostRet

\* 2322 is asked for at a node under an assignment whose value is not a
\* string literal, and the host's fixes come back
C7_Witness ==
  /\ Installed("getCodeFixesAtPosition")
  /\ Includes(args.errorCodes, INVALID_VALUE_ERROR_CODE)
  /\ FileAvailable
  /\ FixAssignment # {}
  /\ ~FixApplicable
  /\ hostRet # <<>>
  /\ ret = hostRet

----------------------------------------------------------------------------
CompletionListProcessed ==
  Installed("getCompletionsAtPosition") /\ hostRet # <<>>

\* whether a name satisfies the token-property predicate and decodes
DecodesAsTokenProperty(name) ==
  TokenPropertySafeParse(<<name>>) /\ getTokenPropertyParts(name, config) # <<>>

\* C8 as stated: an entry gets the prefixed sort key "$" + name only if its
\* name satisfies the token-property predicate and decodes against the config;
\* every other entry, one whose name satisfies the predicate but does not
\* decode included, ends with a sort key equal to its own name.
C8_PrefixOnlyWhenDecoded ==
  CompletionListProcessed =>
    \A i \in 1..Len(HostEntries) :
      LET name == HostEntries[i].name IN
      /\ RetEntries[i].sortText = "$" \o name => DecodesAsTokenProperty(name)
      /\ ~DecodesAsTokenProperty(name) => RetEntries[i].sortText = name

\* C8 amended: an entry gets the prefixed sort key "$" + name exactly when
\* its name satisfies the token-property predicate, whether or not it decodes
\* against the config; every other entry ends with a sort key equal to the
\* name the host gave it.
C8_PrefixWhenPredicateHolds ==
  CompletionListProcessed =>
    /\ Len(RetEntries) = Len(HostEntries)
    /\ \A i \in 1..Len(HostEntries) :
         LET name == HostEntries[i].name IN
         RetEntries[i].sortText =
           IF TokenPropertySafeParse(<<name>>) THEN "$" \o name ELSE name

\* a processed list with a token property that does not decode, prefixed, and
\* an entry that is no token property, not prefixed
C8_Witness ==
  /\ CompletionListProcessed
  /\ \E i \in 1..Len(HostEntries) :
       /\ TokenPropertySafeParse(<<HostEntries[i].name>>)
       /\ ~DecodesAsTokenProperty(HostEntries[i].name)
       /\ RetEntries[i].sortText = "$" \o HostEntries[i].name
  /\ \E i \in 1..Len(HostEntries) :
       /\ ~TokenPropertySafeParse(<<HostEntries[i].name>>)
       /\ RetEntries[i].sortText = HostEntries[i].name

----------------------------------------------------------------------------
\* the decoded parts of a host entry's name, when it satisfies the
\* token-value predicate and decodes (nullable)
ValueParts(name) ==
  IF TokenValueSafeParse(name) THEN getTokenValueParts(name) ELSE <<>>

\* C9: for every entry whose name satisfies the token-value predicate and
\* decodes to (k, t) with config.theme[k][t] present, whatever its value (0 and
\* the empty string included), after the call the cache maps t to
\* {themeKey: k, tokenValue: config.theme[k][t]} (for the last such entry of
\* the list), the entry's name is "$t", its kindModifiers is k and its
\* insertText and label-detail description are the original name; when
\* config.theme[k][t] is not present the entry's name is unchanged.
C9_RecordsEveryPresentValue ==
  CompletionListProcessed =>
    \A i \in 1..Len(HostEntries) :
      LET name == HostEntries[i].name
          parts == ValueParts(name)
      IN parts # <<>> =>
           LET k == parts[1].themeKey
               t == parts[1].token
               value == ThemeLookup(config, k, t)
               lastForToken ==
                 \A j \in (i + 1)..Len(HostEntries) :
                   LET later == ValueParts(HostEntries[j].name) IN
                   later = <<>> \/ later[1].token # t
           IN IF value # <<>>
              THEN /\ RetEntries[i].name = "$" \o t
                   /\ RetEntries[i].kindModifiers = k
                   /\ RetEntries[i].insertText = <<name>>
                   /\ RetEntries[i].labelDetails =
                        << [ detail |-> "", description |-> name ] >>
                   /\ lastForToken =>
                        MapGet(tokenConfigMap, t) =
                          << [ themeKey |-> k, tokenValue |-> value[1] ] >>
              ELSE RetEntries[i].name = name

----------------------------------------------------------------------------
\* C10: the session cache is empty at construction, and over any sequence of
\* calls its key set only grows: a token in the cache stays in the cache.
C10_CacheKeysOnlyGrow ==
  /\ tokenConfigMap = EmptyMap
  /\ [][DOMAIN tokenConfigMap \subseteq DOMAIN tokenConfigMap']_vars

\* the cache holds two tokens, the second recorded by a later completion call
\* than the first
C10_Witness ==
  /\ Installed("getCompletionsAtPosition")
  /\ hostRet # <<>>
  /\ Len(HostEntries) = 1
  /\ Cardinality(DOMAIN tokenConfigMap) = 2

----------------------------------------------------------------------------
\* the property assignments whose name fails the token-property predicate: the
\* name is no string literal, or its text is no token-property name
NonTokenAssignments(ast) == Assignments(ast) \ TokenPropertyAssignments(ast)

\* C11: a property name that fails the token-property predicate is not a
\* token: getSemanticDiagnostics synthesizes no diagnostic for its assignment
\* and rewrites no host diagnostic that starts where the assignment starts,
\* and getCodeFixesAtPosition at a position inside the assignment returns the
\* host's fixes unchanged even when errorCodes includes the invalid-value code.
C11_NonTokenNameIsIgnored ==
  /\ (Installed("getSemanticDiagnostics") /\ FileAvailable) =>
       \A n \in NonTokenAssignments(Ast) :
         /\ \A i \in 1..Len(ret) :
              ret[i].code = INVALID_SELECTOR_ERROR_CODE => ret[i].start # Ast[n].start
         /\ \A i \in 1..Len(hostRet) :
              hostRet[i].start = Ast[n].start => ret[i] = hostRet[i]
  /\ (Installed("getCodeFixesAtPosition")
        /\ Includes(args.errorCodes, INVALID_VALUE_ERROR_CODE)) =>
       \A a \in FixAssignment :
         a \in NonTokenAssignments(Ast) => ret = hostRet

----------------------------------------------------------------------------
\* C12: with a config present, every host operation other than the four
\* intercepted ones reaches the host's implementation with the caller's
\* arguments verbatim and its result is returned unchanged, whatever the
\* session cache holds.
C12_OtherOperationsForwarded ==
  (configExists /\ op \in ForwardedOperations) =>
    /\ ret = hostRet
    /\ ret[1].operation = op
    /\ ret[1].received = args.arguments

\* a forwarded operation with two arguments, called while the cache holds a
\* token
C12_Witness ==
  /\ configExists
  /\ op \in ForwardedOperations
  /\ tokenConfigMap # EmptyMap
  /\ Len(args.arguments) = 2
  /\ ret = hostRet
  /\ ret[1].received = args.arguments

----------------------------------------------------------------------------
\* C13: when the host list holds more than one diagnostic with the
\* invalid-value code at the start of the same token-property assignment, only
\* the first of them in list order has its message replaced; the later ones
\* come back as the host gave them.
C13_OnlyFirstMatchReplaced ==
  (Installed("getSemanticDiagnostics") /\ FileAvailable) =>
    \A n \in TokenPropertyAssignments(Ast) :
      \A i \in 1..Len(hostRet) :
        (hostRet[i].code = INVALID_VALUE_ERROR_CODE /\ hostRet[i].start = Ast[n].start) =>
          IF i = FirstInvalidValueAt(Ast[n].start)
          THEN /\ ret[i].messageText # hostRet[i].messageText
               /\ [ ret[i] EXCEPT !.messageText = hostRet[i].messageText ] = hostRet[i]
          ELSE ret[i] = hostRet[i]

\* two host diagnostics with code 2322 at the start of one token-property
\* assignment: the first comes back with a new message, the second as it was
C13_Witness ==
  /\ Installed("getSemanticDiagnostics")
  /\ FileAvailable
  /\ Len(hostRet) = 2
  /\ hostRet[1].code = INVALID_VALUE_ERROR_CODE
  /\ hostRet[2].code = INVALID_VALUE_ERROR_CODE
  /\ hostRet[1].start = hostRet[2].start
  /\ \E n \in TokenPropertyAssignments(Ast) : Ast[n].start = hostRet[1].start
  /\ ret[1].messageText # hostRet[1].messageText
  /\ ret[2] = hostRet[2]

----------------------------------------------------------------------------
\* the assignments that get a synthesized diagnostic, and the k-th of them in
\* pre-order (node ids are pre-order positions)
Undecodable == IF FileAvailable THEN UndecodableAssignments(Ast) ELSE {}
UndecodableInPreOrder(k) ==
  CHOOSE n \in Undecodable : Cardinality({ m \in Undecodable : m < n }) = k - 1

\* C14: the list getSemanticDiagnostics returns is the host's diagnostics in
\* their order, each identical to the host's record except possibly for its
\* messageText (and then its code is 2322 and it starts where a
\* token-property assignment starts), followed by the synthesized
\* selector-not-found diagnostics in pre-order of their assignments; its length
\* is the host's length plus the number of undecodable token-property
\* assignments.
C14_HostOrderThenSynthesized ==
  Installed("getSemanticDiagnostics") =>
    /\ Len(ret) = Len(hostRet) + Cardinality(Undecodable)
    /\ \A i \in 1..Len(hostRet) :
         /\ [ ret[i] EXCEPT !.messageText = hostRet[i].messageText ] = hostRet[i]
         /\ ret[i] # hostRet[i] =>
              /\ hostRet[i].code = INVALID_VALUE_ERROR_CODE
              /\ FileAvailable
              /\ \E n \in TokenPropertyAssignments(Ast) : Ast[n].start = hostRet[i].start
    /\ \A k \in 1..Cardinality(Undecodable) :
         LET n == UndecodableInPreOrder(k) IN
         ret[Len(hostRet) + k] =
           [ file |-> args.fileName,
             start |-> Ast[n].start,
             length |-> Ast[n].end - Ast[n].start,
             messageText |-> "Invalid property '" \o Ast[NameNode(Ast, n)].text
                             \o "'. Selector not found in theme.",
             category |-> "Error",
             code |-> INVALID_SELECTOR_ERROR_CODE ]

\* a file with two undecodable assignments, one nested in the other, and two
\* host diagnostics of which the second is rewritten: four diagnostics come
\* back, the host's two first
C14_Witness ==
  /\ Installed("getSemanticDiagnostics")
  /\ Cardinality(Undecodable) = 2
  /\ Len(hostRet) = 2
  /\ Len(ret) = 4
  /\ ret[1] = hostRet[1]
  /\ hostRet[1].code = OTHER_ERROR_CODE
  /\ ret[2].messageText # hostRet[2].messageText
  /\ ret[3].code = INVALID_SELECTOR_ERROR_CODE
  /\ ret[4].code = INVALID_SELECTOR_ERROR_CODE
  /\ ret[3].start < ret[4].start

----------------------------------------------------------------------------
\* C15: when errorCodes includes 2322 and the node at start has a
\* property-assignment parent whose value is a non-empty string literal with
\* word-shaped text, the result is exactly one fix named replaceWithArbitrary
\* with exactly one text change: its span starts at the value node's start and
\* has the value node's full length, and its newText is the opening quote,
\* the arbitrary-value encoding of the inner word, and the closing quote; the
\* host's fixes are not part of the result.
C15_OneQuotePreservingFix ==
  (Installed("getCodeFixesAtPosition")
     /\ Includes(args.errorCodes, INVALID_VALUE_ERROR_CODE)) =>
    \A a \in FixAssignment :
      LET value == Ast[InitializerNode(Ast, a)] IN
      (value.kind = "StringLiteral" /\ value.text # "" /\ AllWordChars(value.text)) =>
        LET quote == SubSeq(value.raw, 1, 1) IN
        /\ Len(ret) = 1
        /\ ret[1].fixName = "replaceWithArbitrary"
        /\ Len(ret[1].changes) = 1
        /\ ret[1].changes[1].fileName = args.fileName
        /\ ret[1].changes[1].textChanges =
             << [ span |-> [ start |-> value.start, length |-> value.end - value.start ],
                  newText |-> quote \o "var(---," \o value.text \o ")" \o quote ] >>
        /\ \A i \in 1..Len(hostRet) : ret[1] # hostRet[i]

\* the fix for the single-quoted value 'a-b', asked for at an offset inside
\* its assignment's name, while the host has a fix of its own
C15_Witness ==
  /\ Installed("getCodeFixesAtPosition")
  /\ Includes(args.errorCodes, INVALID_VALUE_ERROR_CODE)
  /\ hostRet # <<>>
  /\ \E a \in FixAssignment :
       /\ Ast[InitializerNode(Ast, a)].raw = "'a-b'"
       /\ args.start < Ast[InitializerNode(Ast, a)].start
  /\ Len(ret) = 1
  /\ ret[1].changes[1].textChanges[1].newText = "'var(---,a-b)'"

----------------------------------------------------------------------------
\* C16: in every reachable state every cache entry t -> {themeKey k,
\* tokenValue v} has v = config.theme[k][t], present, and k is the theme key
\* of the most recently processed completion entry that decoded to t with a
\* present theme value (the last writer wins).
C16_CacheHoldsLastPresentEntry ==
  \A t \in DOMAIN tokenConfigMap :
    /\ ThemeLookup(config, tokenConfigMap[t].themeKey, t)
         = << tokenConfigMap[t].tokenValue >>
    /\ t \in DOMAIN lastPresent
    /\ tokenConfigMap[t].themeKey = lastPresent[t]

----------------------------------------------------------------------------
\* C17: the session cache is changed only by a getCompletionsAtPosition call
\* the host answered with a completion list; getSemanticDiagnostics,
\* getCodeFixesAtPosition, getCompletionEntryDetails and a
\* getCompletionsAtPosition call the host answered with no result leave the
\* cache unchanged, and the last returns the host's absent result as is.
C17_OnlyAnsweredCompletionsWrite ==
  /\ [][ tokenConfigMap' # tokenConfigMap =>
           (op' = "getCompletionsAtPosition" /\ hostRet' # <<>>) ]_vars
  /\ []((op = "getCompletionsAtPosition" /\ hostRet = <<>>) => ret = <<>>)

\* a completion call the host did not answer, made while the cache holds a
\* token: nothing comes back and the cache still holds its tokens
C17_Witness ==
  /\ Installed("getCompletionsAtPosition")
  /\ hostRet = <<>>
  /\ ret = <<>>
  /\ tokenConfigMap # EmptyMap
  /\ DOMAIN tokenConfigMap = recorded

----------------------------------------------------------------------------
\* whether a name has the form of a rewritten completion name: "$" followed
\* by a token holding no "$"
IsRewrittenName(entryName) ==
  LET pieces == Split(entryName, "$") IN
  Len(pieces) = 2 /\ pieces[1] = ""

\* C18: getCompletionEntryDetails returns a synthesized record only for entry
\* names of the rewritten form "$token": for a name with no "$", with text
\* before its first "$" (a token-property name such as "ai$sm") or with more
\* than one "$", it returns the host's own detail result whatever the cache
\* contains.
C18_OnlyRewrittenNamesSynthesized ==
  (Installed("getCompletionEntryDetails") /\ ~IsRewrittenName(args.entryName)) =>
    ret = hostRet

=============================================================================
